---- MODULE Spec2Model ----
(***************************************************************************)
(* Ledger of the yandex-market-bot: the balance, order, withdrawal and     *)
(* referral operations of src/database.py and the chat handlers of         *)
(* src/handlers that call them.                                            *)
(*                                                                         *)
(* Every caller (a chat update being handled, or a direct caller of the    *)
(* database module) is a process with a call stack of frames.  A function  *)
(* that opens a transaction is executed statement by statement under the   *)
(* module's global connection lock; a function that issues one autocommit  *)
(* statement is one step taken while the lock is free.                     *)
(***************************************************************************)
EXTENDS Integers, Sequences, FiniteSets, TLC

VARIABLES
    balance,            \* users.balance, a function on the registered user ids
    orders,             \* orders table: sequence of rows, the id is the index
    withdraw_requests,  \* withdraw_requests table: sequence of rows
    referrals,          \* referrals table: set of rows, unique on the pair
    lock,               \* holder of _connection_lock, or NoProc
    stack,              \* per process: call stack of frames, top first
    tx,                 \* per process: working copy of an open transaction
    result,             \* per process: the last call that ended and how
    nops,               \* number of top-level calls started so far
    balance0,           \* history: the balances of the initial state
    referred_by,        \* users.referred_by, on the registered user ids
    is_blocked          \* users.is_blocked, on the registered user ids

vars == <<balance, orders, withdraw_requests, referrals, lock, stack, tx,
          result, nops, balance0, referred_by, is_blocked>>

tables == <<balance, orders, withdraw_requests, referrals>>

-----------------------------------------------------------------------------
(* Bounds and value sets *)

MaxOps == 3
MaxUpdates == 3

\* the event loop thread that runs the chat handlers, and the other threads
\* that call the database module
Loop == "loop"
Threads == {"t1", "t2", "t3"}
PairThreads == {"t1", "t2"}
Caller == "t1"
Procs == {Loop} \cup Threads
NoProc == "none"

UserIds == {1, 2, 3}
InitUsers == {1, 2}
InitBalances == {0, 100}
Amounts == {40, 60}
Deltas == {-10000, 40}
\* the amounts a direct caller of create_withdraw_request may pass (a float)
AnyAmounts == Amounts \cup {0, -40}
Bonuses == {0, 500}

ORDER_REWARD == 10000

\* users.referred_by of a user without a referrer: NULL or 0, which the
\* UPDATE of upsert_user treats alike
NoReferrer == 0

Max(a, b) == IF a >= b THEN a ELSE b

-----------------------------------------------------------------------------
(* Frames, results and transactions *)

\* a call of database function fn with its arguments; cur holds the value it
\* read; the call starts by entering get_connection
Frame(fn, uid, id, amt, st) ==
    [amt |-> amt, cur |-> 0, fn |-> fn, id |-> id, pc |-> "acquire",
     st |-> st, uid |-> uid]

\* a chat update dispatched to handler fn: from_user.id, the id parsed from
\* callback.data, the amount kept in the conversation state
Update(fn, uid, id, amt) ==
    [amt |-> amt, cur |-> 0, fn |-> fn, id |-> id, pc |-> "start",
     st |-> "", uid |-> uid]

NoResult == [amt |-> 0, id |-> 0, op |-> "none", res |-> "none", st |-> "", uid |-> 0]

Outcome(f, res) ==
    [amt |-> f.amt, id |-> f.id, op |-> f.fn, res |-> res, st |-> f.st, uid |-> f.uid]

NoTx == [on |-> FALSE]

Idle(p) == stack[p] = <<>>
Top(p) == Head(stack[p])
At(p, fn, pc) == ~Idle(p) /\ Top(p).fn = fn /\ Top(p).pc = pc

\* the top frame replaced by f
Goto(p, f) == [stack EXCEPT ![p] = <<f>> \o Tail(@)]
\* the top frame moved to pc
Step(p, pc) == Goto(p, [Top(p) EXCEPT !.pc = pc])
\* the top frame popped
Pop(p) == [stack EXCEPT ![p] = Tail(@)]

\* BEGIN EXCLUSIVE: the transaction works on the committed tables
Begin ==
    [on |-> TRUE, balance |-> balance, withdraw_requests |-> withdraw_requests,
     referrals |-> referrals, referred_by |-> referred_by,
     is_blocked |-> is_blocked]

\* conn.commit(): the working copy becomes the committed tables
Commit(p) ==
    /\ balance' = tx[p].balance
    /\ withdraw_requests' = tx[p].withdraw_requests
    /\ referrals' = tx[p].referrals

-----------------------------------------------------------------------------
(* get_connection *)

\* get_connection entered without waiting for the lock
AcquireUnlocked(p) ==
    /\ ~Idle(p)
    /\ Top(p).pc = "acquire"
    /\ lock' = p
    /\ stack' = Step(p, "begin")
    /\ UNCHANGED <<tables, tx, result, nops, balance0, referred_by, is_blocked>>

\* with _connection_lock: blocks until the lock is free, then connects
Acquire(p) ==
    /\ ~Idle(p)
    /\ Top(p).pc = "acquire"
    /\ lock = NoProc
    /\ lock' = p
    /\ stack' = Step(p, "begin")
    /\ UNCHANGED <<tables, tx, result, nops, balance0, referred_by, is_blocked>>

\* the function ends with the lock still held
LeaveLocked(p, res) ==
    /\ lock' = lock
    /\ tx' = [tx EXCEPT ![p] = NoTx]
    /\ result' = [result EXCEPT ![p] = Outcome(Top(p), res)]
    /\ stack' = Pop(p)

\* the function ends (returns or raises): the connection is closed, which
\* discards an uncommitted transaction, and the lock is released
Leave(p, res) ==
    /\ lock' = NoProc
    /\ tx' = [tx EXCEPT ![p] = NoTx]
    /\ result' = [result EXCEPT ![p] = Outcome(Top(p), res)]
    /\ stack' = Pop(p)

-----------------------------------------------------------------------------
(* get_connection with its retry loop, for a database that another process
   may hold locked *)

MAX_RETRIES == 3
\* retry_delay = 0.1 seconds, in milliseconds
RETRY_DELAY == 100

\* a call of update_user_balance whose get_connection is followed attempt by
\* attempt: the loop index and the delay of the generator are kept with it
RetryCall(uid, amt) ==
    [amt |-> amt, attempt |-> 0, cur |-> 0, fn |-> "update_user_balance", id |-> 0,
     pc |-> "enter", retry_delay |-> RETRY_DELAY, st |-> "", uid |-> uid]

\* with _connection_lock
get_connection_enter(p) ==
    /\ ~Idle(p)
    /\ Top(p).pc = "enter"
    /\ lock = NoProc
    /\ lock' = p
    /\ stack' = Step(p, "connect")
    /\ UNCHANGED <<tables, tx, result, nops, balance0, referred_by, is_blocked>>

\* except sqlite3.OperationalError with 'database is locked': before the last
\* attempt, time.sleep(retry_delay); retry_delay *= 2; continue, which closes
\* the connection and starts the next attempt at pc next; at the last attempt
\* the error is raised
Retry(p, next) ==
    LET f == Top(p) IN
    IF f.attempt < MAX_RETRIES - 1
    THEN /\ stack' = Goto(p, [f EXCEPT !.pc = next, !.attempt = @ + 1,
                                       !.retry_delay = @ * 2])
         /\ tx' = [tx EXCEPT ![p] = NoTx]
         /\ UNCHANGED <<lock, result>>
    ELSE Leave(p, "OperationalError")

\* sqlite3.connect and the PRAGMAs of one attempt: they succeed and the
\* generator yields the connection to the body, or raise 'database is
\* locked', or raise another sqlite3.Error, which is raised at once
get_connection_connect(p) ==
    /\ ~Idle(p)
    /\ Top(p).pc = "connect"
    /\ \E outcome \in {"ok", "locked", "other"} :
         CASE outcome = "ok" ->
                  /\ stack' = Step(p, "begin")
                  /\ UNCHANGED <<lock, tx, result>>
           [] outcome = "locked" -> Retry(p, "connect")
           [] outcome = "other" -> Leave(p, "DatabaseError")
    /\ UNCHANGED <<tables, nops, balance0, referred_by, is_blocked>>

\* a statement of the body (BEGIN EXCLUSIVE) raises: the exception is thrown
\* into the generator at its yield, where the same except clauses handle it
get_connection_throw(p) ==
    /\ ~Idle(p)
    /\ Top(p).pc = "begin"
    /\ \E outcome \in {"locked", "other"} :
         CASE outcome = "locked" -> Retry(p, "reconnect")
           [] outcome = "other" -> Leave(p, "DatabaseError")
    /\ UNCHANGED <<tables, nops, balance0, referred_by, is_blocked>>

\* the call ends with its generator suspended at the second yield, inside
\* "with _connection_lock": the body's connection was closed by the finally
\* of its attempt, the lock stays held
LeaveSuspended(p, res) ==
    /\ lock' = lock
    /\ tx' = [tx EXCEPT ![p] = NoTx]
    /\ result' = [result EXCEPT ![p] = Outcome(Top(p), res)]
    /\ stack' = Pop(p)

\* an attempt made after the body has raised: if it connects, the generator
\* yields a second time and contextlib raises RuntimeError("generator didn't
\* stop after throw()") to the caller; contextlib closes the generator
\* first from Python 3.12 on, and leaves it suspended before
get_connection_reconnect(p) ==
    /\ ~Idle(p)
    /\ Top(p).pc = "reconnect"
    /\ \E outcome \in {"ok", "locked", "other"} :
         CASE outcome = "ok" ->
                  \E closed \in BOOLEAN :
                      IF closed THEN Leave(p, "RuntimeError")
                      ELSE LeaveSuspended(p, "RuntimeError")
           [] outcome = "locked" -> Retry(p, "reconnect")
           [] outcome = "other" -> Leave(p, "DatabaseError")
    /\ UNCHANGED <<tables, nops, balance0, referred_by, is_blocked>>

\* the caller drops the RuntimeError and its traceback, the suspended
\* generator is finalized: GeneratorExit at the yield runs the finally and
\* leaves "with _connection_lock"
get_connection_finalize(p) ==
    /\ Idle(p)
    /\ lock = p
    /\ lock' = NoProc
    /\ UNCHANGED <<tables, stack, tx, result, nops, balance0, referred_by, is_blocked>>

get_connection(p) ==
    \/ get_connection_enter(p)
    \/ get_connection_connect(p)
    \/ get_connection_throw(p)
    \/ get_connection_reconnect(p)
    \/ get_connection_finalize(p)

-----------------------------------------------------------------------------
(* create_withdraw_request(user_id, amount, wallet, withdraw_type) *)

\* the sufficiency test with the comparison against the amount lost
InsufficientNoAmount(current_balance, amount) == current_balance <= 0

\* the sufficiency test left out
InsufficientNever(current_balance, amount) == FALSE

\* the sufficiency test of the balance read inside the transaction
Insufficient(current_balance, amount) == current_balance < amount

\* BEGIN EXCLUSIVE; SELECT balance; the two ValueErrors roll back and raise
create_withdraw_request_select(p) ==
    /\ At(p, "create_withdraw_request", "begin")
    /\ LET f == Top(p) IN
       IF f.uid \notin DOMAIN balance
       THEN Leave(p, "NotFound")
       ELSE IF Insufficient(balance[f.uid], f.amt)
       THEN Leave(p, "InsufficientBalance")
       ELSE /\ tx' = [tx EXCEPT ![p] = Begin]
            /\ stack' = Goto(p, [f EXCEPT !.pc = "insert", !.cur = balance[f.uid]])
            /\ UNCHANGED <<lock, result>>
    /\ UNCHANGED <<tables, nops, balance0, referred_by, is_blocked>>

\* the INSERT committed on its own, ahead of the debit
create_withdraw_request_insert_autocommit(p) ==
    /\ At(p, "create_withdraw_request", "insert")
    /\ LET f == Top(p)
           row == [user_id |-> f.uid, amount |-> f.amt, status |-> "pending"]
           rows == Append(tx[p].withdraw_requests, row)
       IN /\ tx' = [tx EXCEPT ![p].withdraw_requests = rows]
          /\ withdraw_requests' = rows
          /\ stack' = Goto(p, [f EXCEPT !.pc = "update", !.id = Len(rows)])
    /\ UNCHANGED <<balance, orders, referrals, lock, result, nops, balance0, referred_by, is_blocked>>

\* INSERT INTO withdraw_requests: a new pending row; lastrowid is its id
create_withdraw_request_insert(p) ==
    /\ At(p, "create_withdraw_request", "insert")
    /\ LET f == Top(p)
           row == [user_id |-> f.uid, amount |-> f.amt, status |-> "pending"]
           rows == Append(tx[p].withdraw_requests, row)
       IN /\ tx' = [tx EXCEPT ![p].withdraw_requests = rows]
          /\ stack' = Goto(p, [f EXCEPT !.pc = "update", !.id = Len(rows)])
    /\ UNCHANGED <<tables, lock, result, nops, balance0, referred_by, is_blocked>>

\* new_balance = max(0.0, current_balance - amount); UPDATE users
create_withdraw_request_update(p) ==
    /\ At(p, "create_withdraw_request", "update")
    /\ LET f == Top(p) IN
       tx' = [tx EXCEPT ![p].balance[f.uid] = Max(0, f.cur - f.amt)]
    /\ stack' = Step(p, "commit")
    /\ UNCHANGED <<tables, lock, result, nops, balance0, referred_by, is_blocked>>

\* conn.commit(); return withdraw_id
create_withdraw_request_commit(p) ==
    /\ At(p, "create_withdraw_request", "commit")
    /\ Commit(p)
    /\ Leave(p, "ok")
    /\ UNCHANGED <<orders, nops, balance0, referred_by, is_blocked>>

create_withdraw_request(p) ==
    \/ create_withdraw_request_select(p)
    \/ create_withdraw_request_insert(p)
    \/ create_withdraw_request_update(p)
    \/ create_withdraw_request_commit(p)

-----------------------------------------------------------------------------
(* update_user_balance(user_id, delta) *)

\* the new balance without the clamp at zero
NewBalanceUnclamped(current, delta) == current + delta

\* a debit larger than the balance dropped instead of clamped
NewBalanceKept(current, delta) ==
    IF current + delta < 0 THEN current ELSE current + delta

\* new_balance = max(0.0, current + delta)
NewBalance(current, delta) == Max(0, current + delta)

\* a missing user treated as nothing to update
update_user_balance_select_silent(p) ==
    /\ At(p, "update_user_balance", "begin")
    /\ LET f == Top(p) IN
       IF f.uid \notin DOMAIN balance
       THEN Leave(p, "ok")
       ELSE /\ tx' = [tx EXCEPT ![p] = Begin]
            /\ stack' = Goto(p, [f EXCEPT !.pc = "update", !.cur = balance[f.uid]])
            /\ UNCHANGED <<lock, result>>
    /\ UNCHANGED <<tables, nops, balance0, referred_by, is_blocked>>

\* BEGIN EXCLUSIVE; SELECT balance; the ValueError is not an sqlite3.Error,
\* so it leaves through get_connection, which closes the connection
update_user_balance_select(p) ==
    /\ At(p, "update_user_balance", "begin")
    /\ LET f == Top(p) IN
       IF f.uid \notin DOMAIN balance
       THEN Leave(p, "NotFound")
       ELSE /\ tx' = [tx EXCEPT ![p] = Begin]
            /\ stack' = Goto(p, [f EXCEPT !.pc = "update", !.cur = balance[f.uid]])
            /\ UNCHANGED <<lock, result>>
    /\ UNCHANGED <<tables, nops, balance0, referred_by, is_blocked>>

\* UPDATE users SET balance = new_balance
update_user_balance_update(p) ==
    /\ At(p, "update_user_balance", "update")
    /\ LET f == Top(p) IN
       tx' = [tx EXCEPT ![p].balance[f.uid] = NewBalance(f.cur, f.amt)]
    /\ stack' = Step(p, "commit")
    /\ UNCHANGED <<tables, lock, result, nops, balance0, referred_by, is_blocked>>

update_user_balance_commit(p) ==
    /\ At(p, "update_user_balance", "commit")
    /\ Commit(p)
    /\ Leave(p, "ok")
    /\ UNCHANGED <<orders, nops, balance0, referred_by, is_blocked>>

update_user_balance(p) ==
    \/ update_user_balance_select(p)
    \/ update_user_balance_update(p)
    \/ update_user_balance_commit(p)

-----------------------------------------------------------------------------
(* Single-statement functions: one autocommit statement under the lock *)

\* the credit without its WHERE clause
AddUserBalanceEveryone(bal, user_id, amount) ==
    [u \in DOMAIN bal |-> bal[u] + amount]

Statuses == {"pending", "approved", "rejected"}

\* a status column without its CHECK
CheckStatusAny(status) == TRUE

\* CHECK (status IN ('pending', 'approved', 'rejected')), for a text value
CheckStatus(status) == status \in Statuses

\* UPDATE users SET balance = balance + ? WHERE user_id = ?
AddUserBalance(bal, user_id, amount) ==
    IF user_id \in DOMAIN bal
    THEN [bal EXCEPT ![user_id] = @ + amount]
    ELSE bal

\* UPDATE orders SET status = ? WHERE id = ?
UpdateOrderStatus(ords, order_id, status) ==
    IF order_id \in DOMAIN ords
    THEN [ords EXCEPT ![order_id].status = status]
    ELSE ords

\* the cancel statement without its condition on the owner
CancelOrderAnyUser(ords, user_id, order_id) ==
    IF order_id \in DOMAIN ords
    THEN [ords EXCEPT ![order_id].status = "rejected"]
    ELSE ords

\* UPDATE orders SET status = 'rejected' WHERE id = ? AND user_id = ?
CancelOrder(ords, user_id, order_id) ==
    IF order_id \in DOMAIN ords /\ ords[order_id].user_id = user_id
    THEN [ords EXCEPT ![order_id].status = "rejected"]
    ELSE ords

\* the INSERT with a status column that defaults to 'approved'
CreateOrderApproved(ords, user_id) ==
    Append(ords, [user_id |-> user_id, status |-> "approved"])

\* INSERT INTO orders (user_id, product_url, photo_id): status DEFAULT 'pending'
CreateOrder(ords, user_id) ==
    Append(ords, [user_id |-> user_id, status |-> "pending"])

\* UPDATE withdraw_requests SET status = ? WHERE id = ?
UpdateWithdrawRequestStatus(reqs, request_id, status) ==
    IF request_id \in DOMAIN reqs
    THEN [reqs EXCEPT ![request_id].status = status]
    ELSE reqs

\* SELECT ... WHERE status = 'pending': the ids of the pending requests
PendingWithdraws(reqs) == {i \in DOMAIN reqs : reqs[i].status = "pending"}

\* SELECT balance FROM users: 0.0 when the user has no row
GetUserBalance(bal, user_id) == IF user_id \in DOMAIN bal THEN bal[user_id] ELSE 0

add_user_balance(p) ==
    /\ At(p, "add_user_balance", "begin")
    /\ balance' = AddUserBalance(balance, Top(p).uid, Top(p).amt)
    /\ Leave(p, "ok")
    /\ UNCHANGED <<orders, withdraw_requests, referrals, nops, balance0, referred_by, is_blocked>>

\* the UPDATE raises sqlite3.IntegrityError when the row it would write
\* fails the CHECK of the status column, and get_connection raises it again
update_withdraw_request_status(p) ==
    /\ At(p, "update_withdraw_request_status", "begin")
    /\ IF Top(p).id \in DOMAIN withdraw_requests /\ ~CheckStatus(Top(p).st)
       THEN /\ UNCHANGED withdraw_requests
            /\ Leave(p, "IntegrityError")
       ELSE /\ withdraw_requests' =
                   UpdateWithdrawRequestStatus(withdraw_requests, Top(p).id, Top(p).st)
            /\ Leave(p, "ok")
    /\ UNCHANGED <<balance, orders, referrals, nops, balance0, referred_by, is_blocked>>

\* create_order(user_id, product_url, photo_id)
create_order(p) ==
    /\ At(p, "create_order", "begin")
    /\ orders' = CreateOrder(orders, Top(p).uid)
    /\ Leave(p, "ok")
    /\ UNCHANGED <<balance, withdraw_requests, referrals, nops, balance0, referred_by, is_blocked>>

\* update_order_status(order_id, status)
update_order_status(p) ==
    /\ At(p, "update_order_status", "begin")
    /\ IF Top(p).id \in DOMAIN orders /\ ~CheckStatus(Top(p).st)
       THEN /\ UNCHANGED orders
            /\ Leave(p, "IntegrityError")
       ELSE /\ orders' = UpdateOrderStatus(orders, Top(p).id, Top(p).st)
            /\ Leave(p, "ok")
    /\ UNCHANGED <<balance, withdraw_requests, referrals, nops, balance0, referred_by, is_blocked>>

-----------------------------------------------------------------------------
(* reject_withdraw_request_and_refund(request_id) *)

\* BEGIN EXCLUSIVE; SELECT user_id, amount FROM withdraw_requests
reject_withdraw_request_and_refund_select(p) ==
    /\ At(p, "reject_withdraw_request_and_refund", "begin")
    /\ LET f == Top(p) IN
       IF f.id \notin DOMAIN withdraw_requests
       THEN Leave(p, "NotFound")
       ELSE /\ tx' = [tx EXCEPT ![p] = Begin]
            /\ stack' = Goto(p, [f EXCEPT !.pc = "status",
                                          !.uid = withdraw_requests[f.id].user_id,
                                          !.amt = withdraw_requests[f.id].amount])
            /\ UNCHANGED <<lock, result>>
    /\ UNCHANGED <<tables, nops, balance0, referred_by, is_blocked>>

\* UPDATE withdraw_requests SET status = 'rejected' WHERE id = ?
reject_withdraw_request_and_refund_status(p) ==
    /\ At(p, "reject_withdraw_request_and_refund", "status")
    /\ tx' = [tx EXCEPT ![p].withdraw_requests =
                  UpdateWithdrawRequestStatus(@, Top(p).id, "rejected")]
    /\ stack' = Step(p, "refund")
    /\ UNCHANGED <<tables, lock, result, nops, balance0, referred_by, is_blocked>>

\* SELECT balance; new_balance = current_balance + amount; UPDATE users
reject_withdraw_request_and_refund_refund(p) ==
    /\ At(p, "reject_withdraw_request_and_refund", "refund")
    /\ LET f == Top(p) IN
       IF f.uid \notin DOMAIN tx[p].balance
       THEN Leave(p, "NotFound")
       ELSE /\ tx' = [tx EXCEPT ![p].balance[f.uid] = @ + f.amt]
            /\ stack' = Step(p, "commit")
            /\ UNCHANGED <<lock, result>>
    /\ UNCHANGED <<tables, nops, balance0, referred_by, is_blocked>>

reject_withdraw_request_and_refund_commit(p) ==
    /\ At(p, "reject_withdraw_request_and_refund", "commit")
    /\ Commit(p)
    /\ Leave(p, "ok")
    /\ UNCHANGED <<orders, nops, balance0, referred_by, is_blocked>>

reject_withdraw_request_and_refund(p) ==
    \/ reject_withdraw_request_and_refund_select(p)
    \/ reject_withdraw_request_and_refund_status(p)
    \/ reject_withdraw_request_and_refund_refund(p)
    \/ reject_withdraw_request_and_refund_commit(p)

-----------------------------------------------------------------------------
(* set_withdraw_status(withdraw_id, status) *)

\* BEGIN EXCLUSIVE; SELECT the row; for an existing row and status 'rejected'
\* it calls update_user_balance(row.user_id, row.amount), which enters
\* get_connection again while this call still holds the lock
set_withdraw_status_select(p) ==
    /\ At(p, "set_withdraw_status", "begin")
    /\ LET f == Top(p) IN
       /\ tx' = [tx EXCEPT ![p] = Begin]
       /\ IF f.id \in DOMAIN withdraw_requests /\ f.st = "rejected"
          THEN stack' = [stack EXCEPT ![p] =
                   <<Frame("update_user_balance", withdraw_requests[f.id].user_id,
                           0, withdraw_requests[f.id].amount, ""),
                     [f EXCEPT !.pc = "update"]>> \o Tail(@)]
          ELSE stack' = Step(p, "update")
    /\ UNCHANGED <<tables, lock, result, nops, balance0, referred_by, is_blocked>>

\* UPDATE withdraw_requests SET status = ? WHERE id = ?
\* an sqlite3.IntegrityError of the CHECK is caught, rolled back and raised
set_withdraw_status_update(p) ==
    /\ At(p, "set_withdraw_status", "update")
    /\ IF Top(p).id \in DOMAIN withdraw_requests /\ ~CheckStatus(Top(p).st)
       THEN Leave(p, "IntegrityError")
       ELSE /\ tx' = [tx EXCEPT ![p].withdraw_requests =
                         UpdateWithdrawRequestStatus(@, Top(p).id, Top(p).st)]
            /\ stack' = Step(p, "commit")
            /\ UNCHANGED <<lock, result>>
    /\ UNCHANGED <<tables, nops, balance0, referred_by, is_blocked>>

set_withdraw_status_commit(p) ==
    /\ At(p, "set_withdraw_status", "commit")
    /\ Commit(p)
    /\ Leave(p, "ok")
    /\ UNCHANGED <<orders, nops, balance0, referred_by, is_blocked>>

set_withdraw_status(p) ==
    \/ set_withdraw_status_select(p)
    \/ set_withdraw_status_update(p)
    \/ set_withdraw_status_commit(p)

-----------------------------------------------------------------------------
(* add_referral(referrer_id, referred_id, bonus, level) *)

\* INSERT OR IGNORE INTO referrals: UNIQUE (referrer_id, referred_id)
InsertOrIgnoreReferral(refs, referrer_id, referred_id, bonus) ==
    IF \E r \in refs : r.referrer_id = referrer_id /\ r.referred_id = referred_id
    THEN refs
    ELSE refs \cup {[referrer_id |-> referrer_id, referred_id |-> referred_id,
                     bonus |-> bonus]}

\* the INSERT without OR IGNORE: a pair that has a row raises IntegrityError,
\* which is rolled back and raised
add_referral_insert_plain(p) ==
    /\ At(p, "add_referral", "begin")
    /\ LET f == Top(p) IN
       IF \E r \in referrals : r.referrer_id = f.uid /\ r.referred_id = f.id
       THEN Leave(p, "IntegrityError")
       ELSE /\ tx' = [tx EXCEPT ![p] =
                        [Begin EXCEPT !.referrals =
                            InsertOrIgnoreReferral(@, f.uid, f.id, f.amt)]]
            /\ stack' = Step(p, "commit")
            /\ UNCHANGED <<lock, result>>
    /\ UNCHANGED <<tables, nops, balance0, referred_by, is_blocked>>

\* BEGIN EXCLUSIVE; INSERT OR IGNORE; if bonus > 0 it calls
\* update_user_balance(referrer_id, bonus) while still holding the lock
add_referral_insert(p) ==
    /\ At(p, "add_referral", "begin")
    /\ LET f == Top(p) IN
       /\ tx' = [tx EXCEPT ![p] =
                    [Begin EXCEPT !.referrals =
                        InsertOrIgnoreReferral(@, f.uid, f.id, f.amt)]]
       /\ IF f.amt > 0
          THEN stack' = [stack EXCEPT ![p] =
                   <<Frame("update_user_balance", f.uid, 0, f.amt, ""),
                     [f EXCEPT !.pc = "commit"]>> \o Tail(@)]
          ELSE stack' = Step(p, "commit")
    /\ UNCHANGED <<tables, lock, result, nops, balance0, referred_by, is_blocked>>

add_referral_commit(p) ==
    /\ At(p, "add_referral", "commit")
    /\ Commit(p)
    /\ Leave(p, "ok")
    /\ UNCHANGED <<orders, nops, balance0, referred_by, is_blocked>>

add_referral(p) ==
    \/ add_referral_insert(p)
    \/ add_referral_commit(p)

-----------------------------------------------------------------------------
(* Users: get_or_create_user and upsert_user *)

\* INSERT INTO users: the column gets value for user_id, which has no row
InsertUser(col, user_id, value) == col @@ (user_id :> value)

\* the UPDATE of referred_by without its condition on the stored value
SetReferredByAlways(refby, user_id, referrer_id) ==
    [refby EXCEPT ![user_id] = referrer_id]

\* UPDATE users SET referred_by = ? WHERE user_id = ?
\*   AND (referred_by IS NULL OR referred_by = 0)
SetReferredBy(refby, user_id, referrer_id) ==
    IF refby[user_id] = NoReferrer
    THEN [refby EXCEPT ![user_id] = referrer_id]
    ELSE refby

\* INSERT OR REPLACE in place of the SELECT and the INSERT
GetOrCreateBalanceReplace(bal, user_id) ==
    [u \in DOMAIN bal \cup {user_id} |-> IF u = user_id THEN 0 ELSE bal[u]]

\* get_or_create_user: SELECT the user; if there is no row, INSERT one with
\* the default balance 0.0 and referred_by = referrer_id
GetOrCreateBalance(bal, user_id) ==
    IF user_id \in DOMAIN bal THEN bal ELSE InsertUser(bal, user_id, 0)

GetOrCreateReferredBy(refby, user_id, referrer_id) ==
    IF user_id \in DOMAIN refby THEN refby ELSE InsertUser(refby, user_id, referrer_id)

\* is_blocked INTEGER DEFAULT 0 of a new row
GetOrCreateBlocked(blocked, user_id) ==
    IF user_id \in DOMAIN blocked THEN blocked ELSE InsertUser(blocked, user_id, FALSE)

\* UPDATE users SET is_blocked = 1 WHERE user_id = ?
BlockUser(blocked, user_id) ==
    IF user_id \in DOMAIN blocked THEN [blocked EXCEPT ![user_id] = TRUE] ELSE blocked

\* UPDATE users SET is_blocked = 0 WHERE user_id = ?
UnblockUser(blocked, user_id) ==
    IF user_id \in DOMAIN blocked THEN [blocked EXCEPT ![user_id] = FALSE] ELSE blocked

\* SELECT is_blocked FROM users: False when the user has no row
is_user_blocked(blocked, user_id) == user_id \in DOMAIN blocked /\ blocked[user_id]

\* get_or_create_user(user_id, username, referrer_id): the SELECT and the
\* INSERT run in one "with get_connection()" block
get_or_create_user(p) ==
    /\ At(p, "get_or_create_user", "begin")
    /\ balance' = GetOrCreateBalance(balance, Top(p).uid)
    /\ referred_by' = GetOrCreateReferredBy(referred_by, Top(p).uid, Top(p).id)
    /\ is_blocked' = GetOrCreateBlocked(is_blocked, Top(p).uid)
    /\ Leave(p, "ok")
    /\ UNCHANGED <<orders, withdraw_requests, referrals, nops, balance0>>

\* block_user(user_id)
block_user(p) ==
    /\ At(p, "block_user", "begin")
    /\ is_blocked' = BlockUser(is_blocked, Top(p).uid)
    /\ Leave(p, "ok")
    /\ UNCHANGED <<tables, nops, balance0, referred_by>>

\* upsert_user: BEGIN EXCLUSIVE; INSERT ... ON CONFLICT(user_id) DO UPDATE SET
\* username: a new row gets referred_by = referrer_id, an existing row keeps it
upsert_user_insert(p) ==
    /\ At(p, "upsert_user", "begin")
    /\ LET f == Top(p) IN
       tx' = [tx EXCEPT ![p] =
                 [Begin EXCEPT !.balance = GetOrCreateBalance(@, f.uid),
                               !.referred_by = GetOrCreateReferredBy(@, f.uid, f.id),
                               !.is_blocked = GetOrCreateBlocked(@, f.uid)]]
    /\ stack' = Step(p, "update")
    /\ UNCHANGED <<tables, lock, result, nops, balance0, referred_by, is_blocked>>

\* if referrer_id is not None: the guarded UPDATE of referred_by
upsert_user_update(p) ==
    /\ At(p, "upsert_user", "update")
    /\ LET f == Top(p) IN
       IF f.id # NoReferrer
       THEN tx' = [tx EXCEPT ![p].referred_by = SetReferredBy(@, f.uid, f.id)]
       ELSE UNCHANGED tx
    /\ stack' = Step(p, "commit")
    /\ UNCHANGED <<tables, lock, result, nops, balance0, referred_by, is_blocked>>

upsert_user_commit(p) ==
    /\ At(p, "upsert_user", "commit")
    /\ balance' = tx[p].balance
    /\ referred_by' = tx[p].referred_by
    /\ is_blocked' = tx[p].is_blocked
    /\ Leave(p, "ok")
    /\ UNCHANGED <<orders, withdraw_requests, referrals, nops, balance0>>

upsert_user(p) ==
    \/ upsert_user_insert(p)
    \/ upsert_user_update(p)
    \/ upsert_user_commit(p)

-----------------------------------------------------------------------------
(* Chat handlers: the event loop runs one handler at a time up to its first
   await; the notifications sent after that point change no table *)

\* the handler returns (or its except clause has swallowed the exception)
Finish(p, res) ==
    /\ result' = [result EXCEPT ![p] = Outcome(Top(p), res)]
    /\ stack' = Pop(p)

\* the handler's chat sends (await bot.send_message, message.answer,
\* edit_text): a send is delivered or fails, and a failure is caught and
\* logged; then the handler returns
Notify(p, res) ==
    \E delivered \in BOOLEAN :
        Finish(p, IF delivered THEN res ELSE "send_failed")

\* the handler calls database function f and continues at pc when it ends
CallFrom(p, pc, f) ==
    stack' = [stack EXCEPT ![p] = <<f, [Top(p) EXCEPT !.pc = pc]>> \o Tail(@)]

\* user.cmd_start: with the argument ref_<id> it calls
\* get_or_create_user(user_id, username, referrer_id=<id>), without one
\* get_or_create_user(user_id, username)
cmd_start(p) ==
    /\ At(p, "cmd_start", "start")
    /\ lock = NoProc
    /\ balance' = GetOrCreateBalance(balance, Top(p).uid)
    /\ referred_by' = GetOrCreateReferredBy(referred_by, Top(p).uid, Top(p).id)
    /\ is_blocked' = GetOrCreateBlocked(is_blocked, Top(p).uid)
    /\ Finish(p, "ok")
    /\ UNCHANGED <<orders, withdraw_requests, referrals, lock, tx, nops, balance0>>

\* admin.approve_order: update_order_status(order_id, "approved"); the order is
\* looked up in get_all_orders(); if found, add_user_balance(owner, 10000)
approve_order_start(p) ==
    /\ At(p, "approve_order", "start")
    /\ lock = NoProc
    /\ LET order_id == Top(p).id IN
       /\ orders' = UpdateOrderStatus(orders, order_id, "approved")
       /\ balance' = IF order_id \in DOMAIN orders
                     THEN AddUserBalance(balance, orders[order_id].user_id, ORDER_REWARD)
                     ELSE balance
    /\ stack' = Step(p, "notify")
    /\ UNCHANGED <<withdraw_requests, referrals, lock, tx, result, nops, balance0, referred_by, is_blocked>>

\* admin.approve_order: the message to the owner, in a try that logs a
\* failure, and the edit of the admin's message
approve_order_notify(p) ==
    /\ At(p, "approve_order", "notify")
    /\ Notify(p, "ok")
    /\ UNCHANGED <<tables, lock, tx, nops, balance0, referred_by, is_blocked>>

approve_order(p) ==
    \/ approve_order_start(p)
    \/ approve_order_notify(p)

\* admin.reject_order: update_order_status(order_id, "rejected")
reject_order(p) ==
    /\ At(p, "reject_order", "start")
    /\ lock = NoProc
    /\ orders' = UpdateOrderStatus(orders, Top(p).id, "rejected")
    /\ Finish(p, "ok")
    /\ UNCHANGED <<balance, withdraw_requests, referrals, lock, tx, nops, balance0, referred_by, is_blocked>>

\* user.cancel_order_callback: db_cancel_order(callback.from_user.id, order_id)
cancel_order_callback(p) ==
    /\ At(p, "cancel_order_callback", "start")
    /\ lock = NoProc
    /\ orders' = CancelOrder(orders, Top(p).uid, Top(p).id)
    /\ Finish(p, "ok")
    /\ UNCHANGED <<balance, withdraw_requests, referrals, lock, tx, nops, balance0, referred_by, is_blocked>>

\* user.process_order_photo: create_order(message.from_user.id, ...)
process_order_photo(p) ==
    /\ At(p, "process_order_photo", "start")
    /\ lock = NoProc
    /\ orders' = CreateOrder(orders, Top(p).uid)
    /\ Finish(p, "ok")
    /\ UNCHANGED <<balance, withdraw_requests, referrals, lock, tx, nops, balance0, referred_by, is_blocked>>

\* admin.block_user_cb: block_user(user_id) for the id in the callback data
block_user_cb(p) ==
    /\ At(p, "block_user_cb", "start")
    /\ lock = NoProc
    /\ is_blocked' = BlockUser(is_blocked, Top(p).id)
    /\ Finish(p, "ok")
    /\ UNCHANGED <<tables, lock, tx, nops, balance0, referred_by>>

\* admin.unblock_user_cb: unblock_user(user_id)
unblock_user_cb(p) ==
    /\ At(p, "unblock_user_cb", "start")
    /\ lock = NoProc
    /\ is_blocked' = UnblockUser(is_blocked, Top(p).id)
    /\ Finish(p, "ok")
    /\ UNCHANGED <<tables, lock, tx, nops, balance0, referred_by>>

\* admin.process_payment: the request is looked up among the pending ones;
\* if found, update_withdraw_request_status(request_id, "approved")
process_payment(p) ==
    /\ At(p, "process_payment", "start")
    /\ lock = NoProc
    /\ IF Top(p).id \in PendingWithdraws(withdraw_requests)
       THEN /\ withdraw_requests' =
                   UpdateWithdrawRequestStatus(withdraw_requests, Top(p).id, "approved")
            /\ Finish(p, "ok")
       ELSE /\ UNCHANGED withdraw_requests
            /\ Finish(p, "NotFound")
    /\ UNCHANGED <<balance, orders, referrals, lock, tx, nops, balance0, referred_by, is_blocked>>

\* payments.accept_withdraw, up to update_user_balance: the request is looked
\* up among the pending ones; current_balance = get_user_balance(user_id);
\* then update_user_balance(user_id, current_balance - amount)
accept_withdraw_start(p) ==
    /\ At(p, "accept_withdraw", "start")
    /\ lock = NoProc
    /\ LET f == Top(p)
           w == withdraw_requests[f.id]
           current_balance == GetUserBalance(balance, w.user_id)
       IN IF f.id \notin PendingWithdraws(withdraw_requests)
          THEN Finish(p, "NotFound")
          ELSE IF w.amount > current_balance
          THEN Finish(p, "InsufficientBalance")
          ELSE /\ CallFrom(p, "status", Frame("update_user_balance", w.user_id, 0,
                                              current_balance - w.amount, ""))
               /\ UNCHANGED result
    /\ UNCHANGED <<tables, lock, tx, nops, balance0, referred_by, is_blocked>>

\* payments.accept_withdraw: set_withdraw_status(wid, "approved"), unless
\* update_user_balance raised, which the handler's except clause swallows
accept_withdraw_status(p) ==
    /\ At(p, "accept_withdraw", "status")
    /\ IF result[p].res = "ok"
       THEN /\ CallFrom(p, "done", Frame("set_withdraw_status", 0, Top(p).id, 0, "approved"))
            /\ UNCHANGED result
       ELSE Finish(p, result[p].res)
    /\ UNCHANGED <<tables, lock, tx, nops, balance0, referred_by, is_blocked>>

accept_withdraw_done(p) ==
    /\ At(p, "accept_withdraw", "done")
    /\ Notify(p, result[p].res)
    /\ UNCHANGED <<tables, lock, tx, nops, balance0, referred_by, is_blocked>>

accept_withdraw(p) ==
    \/ accept_withdraw_start(p)
    \/ accept_withdraw_status(p)
    \/ accept_withdraw_done(p)

\* admin.reject_withdraw_request: the request is looked up among the pending
\* ones; if found, reject_withdraw_request_and_refund(request_id)
reject_withdraw_request_start(p) ==
    /\ At(p, "reject_withdraw_request", "start")
    /\ lock = NoProc
    /\ IF Top(p).id \in PendingWithdraws(withdraw_requests)
       THEN /\ CallFrom(p, "done", Frame("reject_withdraw_request_and_refund",
                                         0, Top(p).id, 0, ""))
            /\ UNCHANGED result
       ELSE Finish(p, "NotFound")
    /\ UNCHANGED <<tables, lock, tx, nops, balance0, referred_by, is_blocked>>

reject_withdraw_request_done(p) ==
    /\ At(p, "reject_withdraw_request", "done")
    /\ Notify(p, result[p].res)
    /\ UNCHANGED <<tables, lock, tx, nops, balance0, referred_by, is_blocked>>

reject_withdraw_request(p) ==
    \/ reject_withdraw_request_start(p)
    \/ reject_withdraw_request_done(p)

\* payments.reject_withdraw: set_withdraw_status(wid, "rejected") first, and
\* only then the look-up among the pending requests
reject_withdraw_start(p) ==
    /\ At(p, "reject_withdraw", "start")
    /\ CallFrom(p, "done", Frame("set_withdraw_status", 0, Top(p).id, 0, "rejected"))
    /\ UNCHANGED <<tables, lock, tx, result, nops, balance0, referred_by, is_blocked>>

reject_withdraw_done(p) ==
    /\ At(p, "reject_withdraw", "done")
    /\ Notify(p, result[p].res)
    /\ UNCHANGED <<tables, lock, tx, nops, balance0, referred_by, is_blocked>>

reject_withdraw(p) ==
    \/ reject_withdraw_start(p)
    \/ reject_withdraw_done(p)

\* payments.save_withdraw_request: create_withdraw_request(from_user.id,
\* amount, wallet, withdraw_type) with the amount kept in the conversation
save_withdraw_request_start(p) ==
    /\ At(p, "save_withdraw_request", "start")
    /\ CallFrom(p, "done", Frame("create_withdraw_request", Top(p).uid, 0, Top(p).amt, ""))
    /\ UNCHANGED <<tables, lock, tx, result, nops, balance0, referred_by, is_blocked>>

save_withdraw_request_done(p) ==
    /\ At(p, "save_withdraw_request", "done")
    /\ Notify(p, result[p].res)
    /\ UNCHANGED <<tables, lock, tx, nops, balance0, referred_by, is_blocked>>

save_withdraw_request(p) ==
    \/ save_withdraw_request_start(p)
    \/ save_withdraw_request_done(p)

-----------------------------------------------------------------------------
(* Callers *)

\* ids a caller may name: every row of the table and one id that has no row
Ids(rows) == 1..(Len(rows) + 1)

\* an idle caller starts a top-level call with frame f
Call(p, f) ==
    /\ Idle(p)
    /\ nops < MaxOps
    /\ nops' = nops + 1
    /\ stack' = [stack EXCEPT ![p] = <<f>>]
    /\ UNCHANGED <<tables, lock, tx, result, balance0, referred_by, is_blocked>>

\* concurrent callers of create_withdraw_request, one call each
CallWithdrawRace(p) ==
    /\ result[p] = NoResult
    /\ \E u \in InitUsers, a \in Amounts :
         Call(p, Frame("create_withdraw_request", u, 0, a, ""))

\* calls of the balance primitives and of withdrawal creation
LedgerCalls ==
    {Frame("update_user_balance", u, 0, d, "") : u \in UserIds, d \in Deltas}
    \cup {Frame("add_user_balance", u, 0, ORDER_REWARD, "") : u \in UserIds}
    \cup {Frame("create_withdraw_request", u, 0, a, "") : u \in UserIds, a \in Amounts}

CallLedger(p) == \E f \in LedgerCalls : Call(p, f)

\* concurrent callers, one call each
CallPair(p) ==
    /\ result[p] = NoResult
    /\ \E f \in LedgerCalls : Call(p, f)

\* calls of the withdrawal functions, with the statuses the handlers pass:
\* set_withdraw_status gets "approved" and "rejected",
\* update_withdraw_request_status gets "approved"
WithdrawCalls ==
    {Frame("create_withdraw_request", u, 0, a, "") : u \in UserIds, a \in AnyAmounts}
    \cup {Frame("reject_withdraw_request_and_refund", 0, i, 0, "") :
            i \in Ids(withdraw_requests)}
    \cup {Frame("set_withdraw_status", 0, i, 0, s) :
            i \in Ids(withdraw_requests), s \in {"approved", "rejected"}}
    \cup {Frame("update_withdraw_request_status", 0, i, 0, "approved") :
            i \in Ids(withdraw_requests)}

CallWithdraw(p) == \E f \in WithdrawCalls : Call(p, f)

\* calls of add_referral, and of the balance primitive it uses
ReferralCalls ==
    {Frame("add_referral", u, v, b, "") : u \in UserIds, v \in UserIds, b \in Bonuses}
    \cup {Frame("update_user_balance", u, 0, d, "") : u \in UserIds, d \in Deltas}

CallReferral(p) == \E f \in ReferralCalls : Call(p, f)

\* the status values a caller may pass: the three of the schema and others
AnyStatuses == Statuses \cup {"done", ""}

\* calls that create orders and withdrawal requests and set their status
StatusCalls ==
    {Frame("create_order", u, 0, 0, "") : u \in InitUsers}
    \cup {Frame("create_withdraw_request", u, 0, a, "") : u \in InitUsers, a \in Amounts}
    \cup {Frame("update_order_status", 0, i, 0, s) : i \in Ids(orders), s \in AnyStatuses}
    \cup {Frame(fn, 0, i, 0, s) :
            fn \in {"update_withdraw_request_status", "set_withdraw_status"},
            i \in Ids(withdraw_requests), s \in AnyStatuses}

CallStatus(p) == \E f \in StatusCalls : Call(p, f)

\* calls that create users, with and without a referrer, and calls that
\* block a user or credit a balance, for a registered user and a new one
CreateCalls ==
    {Frame(fn, u, r, 0, "") :
        fn \in {"get_or_create_user", "upsert_user"},
        u \in UserIds \ {2}, r \in {NoReferrer, 1}}
    \cup {Frame("block_user", u, 0, 0, "") : u \in UserIds \ {2}}
    \cup {Frame("add_user_balance", u, 0, 40, "") : u \in UserIds \ {2}}

CallCreate(p) == \E f \in CreateCalls : Call(p, f)

\* calls of add_referral, made while no update is being handled
AddReferralCalls ==
    {Frame("add_referral", u, v, b, "") : u \in UserIds, v \in UserIds, b \in Bonuses}

CallAddReferral(p) ==
    /\ Idle(Loop)
    /\ \E f \in AddReferralCalls : Call(p, f)

\* calls of upsert_user, with and without a referrer
UserCalls ==
    {Frame("upsert_user", u, r, 0, "") : u \in UserIds, r \in UserIds \cup {NoReferrer}}

\* made while no /start is being handled
CallUsers(p) ==
    /\ Idle(Loop)
    /\ \E f \in UserCalls : Call(p, f)

\* the /start commands, with a referral link of any user or without one
StartUpdates ==
    {Update("cmd_start", u, r, 0) : u \in UserIds, r \in UserIds \cup {NoReferrer}}

\* handled while no direct call is in progress
DispatchStart(p) ==
    /\ Idle(p)
    /\ Idle(Caller)
    /\ nops < MaxUpdates
    /\ nops' = nops + 1
    /\ \E f \in StartUpdates : stack' = [stack EXCEPT ![p] = <<f>>]
    /\ UNCHANGED <<tables, lock, tx, result, balance0, referred_by, is_blocked>>

\* calls of update_user_balance on a database that may be locked
RetryCalls == {RetryCall(u, d) : u \in UserIds, d \in Deltas}

CallRetry(p) ==
    \E f \in RetryCalls : Call(p, f)

\* the chat updates the dispatcher hands to the handlers
Updates ==
    {Update("process_order_photo", u, 0, 0) : u \in InitUsers}
    \cup {Update(h, 0, i, 0) : h \in {"approve_order", "reject_order"}, i \in Ids(orders)}
    \cup {Update("cancel_order_callback", u, i, 0) : u \in InitUsers, i \in Ids(orders)}
    \cup {Update("save_withdraw_request", u, 0, a) : u \in InitUsers, a \in Amounts}
    \cup {Update(h, 0, i, 0) :
            h \in {"process_payment", "accept_withdraw", "reject_withdraw_request",
                   "reject_withdraw"},
            i \in Ids(withdraw_requests)}

\* Config.admin.ADMIN_IDS, and the settings row admin_ids when it is set
ADMIN_IDS == {9}

\* the admin check that lets everybody through
is_admin_anyone(user_id) == TRUE

\* database.is_admin(user_id)
is_admin(user_id) == user_id \in ADMIN_IDS

\* the callbacks registered with IsAdminCallback()
AdminCallbacks ==
    {"approve_order", "reject_order", "process_payment", "accept_withdraw",
     "reject_withdraw_request", "reject_withdraw"}

\* the updates of the users and of the admin, each with its from_user.id;
\* any sender may send any callback data
UpdatesFrom ==
    {Update("process_order_photo", u, 0, 0) : u \in InitUsers}
    \cup {Update("cancel_order_callback", u, i, 0) : u \in InitUsers, i \in Ids(orders)}
    \cup {Update("save_withdraw_request", u, 0, a) : u \in InitUsers, a \in Amounts}
    \cup {Update(h, u, i, 0) :
            h \in {"approve_order", "reject_order"},
            u \in InitUsers \cup ADMIN_IDS, i \in Ids(orders)}
    \cup {Update(h, u, i, 0) :
            h \in {"process_payment", "accept_withdraw", "reject_withdraw_request",
                   "reject_withdraw"},
            u \in InitUsers \cup ADMIN_IDS, i \in Ids(withdraw_requests)}

\* the dispatcher runs the filters of the handler: IsAdminCallback.check
\* answers "not an admin" and returns False, and the handler is not run
DispatchFrom(p) ==
    /\ Idle(p)
    /\ nops < MaxUpdates
    /\ nops' = nops + 1
    /\ \E f \in UpdatesFrom :
         IF f.fn \in AdminCallbacks /\ ~is_admin(f.uid)
         THEN /\ result' = [result EXCEPT ![p] = Outcome(f, "not_admin")]
              /\ UNCHANGED stack
         ELSE /\ stack' = [stack EXCEPT ![p] = <<f>>]
              /\ UNCHANGED result
    /\ UNCHANGED <<tables, lock, tx, balance0, referred_by, is_blocked>>

\* the user handlers registered with IsNotBlocked(); cancel_order_callback
\* and the message handlers of the withdrawal conversation that end in
\* save_withdraw_request are registered without it
NotBlockedHandlers == {"process_order_photo"}

\* the updates of the users, and the admin's block and unblock callbacks
BlockUpdates ==
    {Update("process_order_photo", u, 0, 0) : u \in InitUsers}
    \cup {Update("cancel_order_callback", u, i, 0) : u \in InitUsers, i \in Ids(orders)}
    \cup {Update("save_withdraw_request", u, 0, a) : u \in InitUsers, a \in Amounts}
    \cup {Update(h, a, u, 0) :
            h \in {"block_user_cb", "unblock_user_cb"}, a \in ADMIN_IDS, u \in UserIds}

\* the dispatcher runs the filters of the handler: IsNotBlocked.check answers
\* "you are blocked" and returns False, and the handler is not run
DispatchBlock(p) ==
    /\ Idle(p)
    /\ nops < MaxUpdates
    /\ nops' = nops + 1
    /\ \E f \in BlockUpdates :
         IF f.fn \in NotBlockedHandlers /\ is_user_blocked(is_blocked, f.uid)
         THEN /\ result' = [result EXCEPT ![p] = Outcome(f, "blocked")]
              /\ UNCHANGED stack
         ELSE /\ stack' = [stack EXCEPT ![p] = <<f>>]
              /\ UNCHANGED result
    /\ UNCHANGED <<tables, lock, tx, balance0, referred_by, is_blocked>>

\* the event loop takes the next update once the previous handler has ended
Dispatch(p) ==
    /\ Idle(p)
    /\ nops < MaxUpdates
    /\ nops' = nops + 1
    /\ \E f \in Updates : stack' = [stack EXCEPT ![p] = <<f>>]
    /\ UNCHANGED <<tables, lock, tx, result, balance0, referred_by, is_blocked>>

-----------------------------------------------------------------------------
(* Specifications *)

Init ==
    /\ balance \in [InitUsers -> InitBalances]
    /\ orders = <<>>
    /\ withdraw_requests = <<>>
    /\ referrals = {}
    /\ lock = NoProc
    /\ stack = [p \in Procs |-> <<>>]
    /\ tx = [p \in Procs |-> NoTx]
    /\ result = [p \in Procs |-> NoResult]
    /\ nops = 0
    /\ balance0 = balance
    /\ referred_by = [u \in InitUsers |-> NoReferrer]
    /\ is_blocked = [u \in InitUsers |-> FALSE]

\* concurrent create_withdraw_request calls
NextRace ==
    \E p \in Threads :
        \/ CallWithdrawRace(p)
        \/ Acquire(p)
        \/ create_withdraw_request(p)

SpecRace == Init /\ [][NextRace]_vars

\* two threads, one call each of the balance primitives and withdrawal creation
NextPair ==
    \E p \in PairThreads :
        \/ CallPair(p)
        \/ Acquire(p)
        \/ update_user_balance(p)
        \/ add_user_balance(p)
        \/ create_withdraw_request(p)

SpecPair == Init /\ [][NextPair]_vars

\* a caller's sequence of calls of the balance primitives and withdrawal creation
NextLedger ==
    \/ CallLedger(Caller)
    \/ Acquire(Caller)
    \/ update_user_balance(Caller)
    \/ add_user_balance(Caller)
    \/ create_withdraw_request(Caller)

SpecLedger == Init /\ [][NextLedger]_vars

\* a caller's sequence of calls of the withdrawal functions
NextWithdraw ==
    \/ CallWithdraw(Caller)
    \/ Acquire(Caller)
    \/ create_withdraw_request(Caller)
    \/ reject_withdraw_request_and_refund(Caller)
    \/ set_withdraw_status(Caller)
    \/ update_withdraw_request_status(Caller)

SpecWithdraw == Init /\ [][NextWithdraw]_vars

\* a caller's sequence of calls of add_referral and update_user_balance
NextReferral ==
    \/ CallReferral(Caller)
    \/ Acquire(Caller)
    \/ add_referral(Caller)
    \/ update_user_balance(Caller)

SpecReferral == Init /\ [][NextReferral]_vars

\* the same caller, whose thread keeps running while it has a step to take
SpecReferralLive == SpecReferral /\ WF_vars(NextReferral)

\* users registering through /start, which calls get_or_create_user, and a
\* caller's sequence of calls of upsert_user
NextUsers ==
    \/ DispatchStart(Loop)
    \/ cmd_start(Loop)
    \/ CallUsers(Caller)
    \/ Acquire(Caller)
    \/ upsert_user(Caller)

SpecUsers == Init /\ [][NextUsers]_vars

\* a caller's sequence of update_user_balance calls under lock contention
NextRetry ==
    \/ CallRetry(Caller)
    \/ get_connection(Caller)
    \/ update_user_balance(Caller)

SpecRetry == Init /\ [][NextRetry]_vars

\* the bot: chat updates handled one after another by the event loop
NextBot ==
    \/ Dispatch(Loop)
    \/ Acquire(Loop)
    \/ approve_order(Loop)
    \/ reject_order(Loop)
    \/ cancel_order_callback(Loop)
    \/ process_order_photo(Loop)
    \/ process_payment(Loop)
    \/ accept_withdraw(Loop)
    \/ reject_withdraw_request(Loop)
    \/ reject_withdraw(Loop)
    \/ save_withdraw_request(Loop)
    \/ update_user_balance(Loop)
    \/ set_withdraw_status(Loop)
    \/ reject_withdraw_request_and_refund(Loop)
    \/ create_withdraw_request(Loop)

SpecBot == Init /\ [][NextBot]_vars

\* a caller's sequence of creations and status-setting calls
NextStatus ==
    \/ CallStatus(Caller)
    \/ Acquire(Caller)
    \/ create_order(Caller)
    \/ create_withdraw_request(Caller)
    \/ update_order_status(Caller)
    \/ update_withdraw_request_status(Caller)
    \/ set_withdraw_status(Caller)

SpecStatus == Init /\ [][NextStatus]_vars

\* the bot with the senders of its updates and the filters of its handlers
NextGate ==
    \/ DispatchFrom(Loop)
    \/ Acquire(Loop)
    \/ approve_order(Loop)
    \/ reject_order(Loop)
    \/ cancel_order_callback(Loop)
    \/ process_order_photo(Loop)
    \/ process_payment(Loop)
    \/ accept_withdraw(Loop)
    \/ reject_withdraw_request(Loop)
    \/ reject_withdraw(Loop)
    \/ save_withdraw_request(Loop)
    \/ update_user_balance(Loop)
    \/ set_withdraw_status(Loop)
    \/ reject_withdraw_request_and_refund(Loop)
    \/ create_withdraw_request(Loop)

SpecGate == Init /\ [][NextGate]_vars

\* the users' updates and the admin's blocking of users
NextBlock ==
    \/ DispatchBlock(Loop)
    \/ block_user_cb(Loop)
    \/ unblock_user_cb(Loop)
    \/ process_order_photo(Loop)
    \/ cancel_order_callback(Loop)
    \/ save_withdraw_request(Loop)
    \/ Acquire(Loop)
    \/ create_withdraw_request(Loop)

SpecBlock == Init /\ [][NextBlock]_vars

\* two threads that create users, block them and credit them
NextCreate ==
    \E p \in PairThreads :
        \/ CallCreate(p)
        \/ Acquire(p)
        \/ get_or_create_user(p)
        \/ upsert_user(p)
        \/ block_user(p)
        \/ add_user_balance(p)

SpecCreate == Init /\ [][NextCreate]_vars

\* the bot, and a caller of add_referral between two updates
NextStore ==
    \/ Idle(Caller) /\ NextBot
    \/ CallAddReferral(Caller)
    \/ Acquire(Caller)
    \/ add_referral(Caller)

SpecStore == Init /\ [][NextStore]_vars

\* the bot, whose event loop keeps running while it has a step to take
SpecBotLive == SpecBot /\ WF_vars(NextBot)

-----------------------------------------------------------------------------
(* Properties *)

\* p's last call was function fn and it ended with res
Ended(p, fn, res) == result[p].op = fn /\ result[p].res = res

\* the handler h is on p's stack
Running(p, h) == \E i \in DOMAIN stack[p] : stack[p][i].fn = h

RECURSIVE SuccessSum(_, _)
\* the sum of the amounts of the create_withdraw_request calls of the threads
\* in P that succeeded for user u
SuccessSum(u, P) ==
    IF P = {} THEN 0
    ELSE LET p == CHOOSE q \in P : TRUE
             a == IF Ended(p, "create_withdraw_request", "ok") /\ result[p].uid = u
                  THEN result[p].amt ELSE 0
         IN a + SuccessSum(u, P \ {p})

\* C1: for concurrent create_withdraw_request calls on one user, under every
\* interleaving, the amounts of the calls that succeeded sum to no more than
\* the balance the user had before them, every other call failed with
\* InsufficientBalance, and the balance is the initial one less that sum
C1_ConservationUnderRace ==
    \A u \in InitUsers :
        /\ SuccessSum(u, Threads) <= balance0[u]
        /\ balance[u] = balance0[u] - SuccessSum(u, Threads)
        /\ \A p \in Threads :
               result[p].op = "create_withdraw_request" /\ result[p].uid = u
                   => result[p].res \in {"ok", "InsufficientBalance"}

\* two calls for 60 against 100 have ended: one succeeded, one was refused
C1_RaceWitness ==
    \E p, q \in Threads :
        /\ Ended(p, "create_withdraw_request", "ok")
        /\ Ended(q, "create_withdraw_request", "InsufficientBalance")
        /\ result[p].uid = 1 /\ result[q].uid = 1
        /\ result[p].amt = 60 /\ result[q].amt = 60
        /\ balance0[1] = 100 /\ balance[1] = 40

\* C2: an approve action on an order that is already approved adds nothing to
\* any balance, so the reward of an order is credited once
C2_NoDoubleCredit ==
    [][(/\ At(Loop, "approve_order", "start")
        /\ Top(Loop).id \in DOMAIN orders
        /\ orders[Top(Loop).id].status = "approved")
       => balance' = balance]_vars

\* p is about to commit a rejection of an existing withdrawal request
RejectCommits(p) ==
    \/ At(p, "reject_withdraw_request_and_refund", "commit")
    \/ /\ At(p, "set_withdraw_status", "commit")
       /\ Top(p).st = "rejected"
       /\ Top(p).id \in DOMAIN withdraw_requests

\* C3: a reject of a pending withdrawal request refunds its amount to the
\* owner, and a reject of an already rejected request changes no balance, so
\* the amount is refunded once
C3_RefundExactlyOnce ==
    [][\A p \in Procs :
          RejectCommits(p) =>
              LET w == withdraw_requests[Top(p).id] IN
              /\ w.status = "pending" =>
                     balance' = [balance EXCEPT ![w.user_id] = @ + w.amount]
              /\ w.status = "rejected" => balance' = balance]_vars

\* C4: every stored balance is greater than or equal to zero
C4_NonNegative == \A u \in DOMAIN balance : balance[u] >= 0

\* a debit larger than the balance has been applied and left the balance at 0
C4_ClampWitness ==
    /\ Ended(Caller, "update_user_balance", "ok")
    /\ result[Caller].uid = 1
    /\ result[Caller].amt = -10000
    /\ balance0[1] = 100
    /\ balance[1] = 0

\* the balance b of user u after the call recorded in r has run alone
After(r, u, b) ==
    IF r.uid # u THEN b
    ELSE CASE r.op = "update_user_balance" -> Max(0, b + r.amt)
           [] r.op = "add_user_balance" -> b + r.amt
           [] r.op = "create_withdraw_request" ->
                  IF b < r.amt THEN b ELSE Max(0, b - r.amt)
           [] OTHER -> b

\* both threads have made their call and it has ended
PairDone == \A p \in PairThreads : Idle(p) /\ result[p] # NoResult

\* C5: when two balance-mutating calls have run concurrently, every balance
\* is the one produced by running the two calls one after the other in one
\* of the two orders
C5_NoLostUpdate ==
    PairDone =>
        \A u \in InitUsers :
            balance[u] \in {After(result["t2"], u, After(result["t1"], u, balance0[u])),
                            After(result["t1"], u, After(result["t2"], u, balance0[u]))}

\* a withdrawal creation and a credit on the same user have both ended
C5_PairWitness ==
    /\ PairDone
    /\ \E p, q \in PairThreads :
           /\ Ended(p, "create_withdraw_request", "ok")
           /\ Ended(q, "add_user_balance", "ok")
           /\ result[p].uid = 1 /\ result[q].uid = 1
           /\ result[p].amt = 60
    /\ balance[1] = balance0[1] + ORDER_REWARD - 60

\* C6: no call waits for the connection lock while the lock is held by the
\* very process that waits, which is a wait that never ends
C6_NoLockDeadlock ==
    \A p \in Procs : ~(~Idle(p) /\ Top(p).pc = "acquire" /\ lock = p)

\* C7: no step of a handler that approves a withdrawal request (process_payment,
\* accept_withdraw) changes a balance
C7_ApprovalKeepsBalances ==
    [][(Running(Loop, "process_payment") \/ Running(Loop, "accept_withdraw"))
       => balance' = balance]_vars

\* a status-setting call on withdrawal request i is in progress
StatusCallOn(i) ==
    \E p \in Procs :
        /\ ~Idle(p)
        /\ Top(p).fn \in {"reject_withdraw_request_and_refund", "set_withdraw_status",
                          "update_withdraw_request_status"}
        /\ Top(p).id = i

\* C8: once a withdrawal request is approved or rejected its status never
\* changes again, and no status-setting call on it changes a balance
C8_TerminalWithdrawStatus ==
    [][\A i \in DOMAIN withdraw_requests :
          withdraw_requests[i].status # "pending" =>
              /\ withdraw_requests'[i].status = withdraw_requests[i].status
              /\ StatusCallOn(i) => balance' = balance]_vars

\* C9: once an order is approved or rejected its status never changes again
C9_OrderStatusOneWay ==
    [][\A i \in DOMAIN orders :
          orders[i].status # "pending" => orders'[i].status = orders[i].status]_vars

\* C10: a cancel by the owner of an order that is no longer pending changes
\* no order row
C10_CancelOnlyPending ==
    [][(/\ At(Loop, "cancel_order_callback", "start")
        /\ Top(Loop).id \in DOMAIN orders
        /\ orders[Top(Loop).id].user_id = Top(Loop).uid
        /\ orders[Top(Loop).id].status # "pending")
       => orders' = orders]_vars

\* C11: a cancel of an order by a user who does not own it changes nothing:
\* every order row and every balance is the same after the call as before
C11_CancelByOtherUser ==
    [][(/\ At(Loop, "cancel_order_callback", "start")
        /\ Top(Loop).id \in DOMAIN orders
        /\ orders[Top(Loop).id].user_id # Top(Loop).uid)
       => /\ orders' = orders
          /\ balance' = balance
          /\ withdraw_requests' = withdraw_requests]_vars

\* a user has tried to cancel an approved order of another user
C11_OtherUserWitness ==
    /\ Ended(Loop, "cancel_order_callback", "ok")
    /\ result[Loop].id \in DOMAIN orders
    /\ orders[result[Loop].id].user_id # result[Loop].uid
    /\ orders[result[Loop].id].status = "approved"

\* a call of add_referral(u, v, bonus) with a positive bonus has entered
ReferralCalled(u, v) ==
    /\ At(Caller, "add_referral", "begin")
    /\ Top(Caller).uid = u
    /\ Top(Caller).id = v
    /\ Top(Caller).amt > 0

\* C12: every add_referral call with a positive bonus returns with the pair
\* recorded; the call that records a new pair credits the bonus to the
\* referrer, and a call for a pair already recorded changes no balance
C12_ReferralCreditOnce ==
    /\ \A u \in InitUsers, v \in UserIds :
           ReferralCalled(u, v) ~>
               (/\ Ended(Caller, "add_referral", "ok")
                /\ \E r \in referrals : r.referrer_id = u /\ r.referred_id = v)
    /\ [][(At(Caller, "add_referral", "commit") /\ Top(Caller).amt > 0) =>
             LET f == Top(Caller) IN
             IF \E r \in referrals : r.referrer_id = f.uid /\ r.referred_id = f.id
             THEN balance' = balance
             ELSE balance' = [balance EXCEPT ![f.uid] = @ + f.amt]]_vars

\* a reject handler has been called on the pending withdrawal request i
RejectCalled(i) ==
    /\ At(Loop, "reject_withdraw", "start") \/ At(Loop, "reject_withdraw_request", "start")
    /\ Top(Loop).id = i
    /\ i \in PendingWithdraws(withdraw_requests)

\* C13: a rejection of a pending withdrawal request takes effect, and the
\* step that makes the request rejected adds exactly its stored amount to
\* the owner's balance and changes no other balance, so that a creation
\* followed by the rejection returns the balance to what it was
C13_RejectionRoundTrip ==
    /\ \A i \in 1..MaxUpdates :
           RejectCalled(i) ~>
               (i \in DOMAIN withdraw_requests /\ withdraw_requests[i].status = "rejected")
    /\ [][\A i \in DOMAIN withdraw_requests :
             (/\ withdraw_requests[i].status = "pending"
              /\ withdraw_requests'[i].status = "rejected")
             => LET w == withdraw_requests[i] IN
                balance' = [balance EXCEPT ![w.user_id] = @ + w.amount]]_vars

RECURSIVE HeldSum(_, _, _)
\* the sum of the amounts of the rows of reqs owned by u whose status is in S
HeldSum(reqs, u, S) ==
    IF reqs = <<>> THEN 0
    ELSE (IF Head(reqs).user_id = u /\ Head(reqs).status \in S
          THEN Head(reqs).amount ELSE 0) + HeldSum(Tail(reqs), u, S)

\* C14: a successful create_withdraw_request appends exactly one pending row
\* with the caller's user and amount and takes exactly the amount off that
\* user's balance in the same step, so the stored tables never show a row
\* without its debit or a debit without its row, whatever the other callers
\* are doing at that moment
C14_AtomicCreate ==
    /\ [](\A u \in InitUsers :
             balance[u] + HeldSum(withdraw_requests, u, {"pending"}) = balance0[u])
    /\ [][\A p \in Threads :
             (At(p, "create_withdraw_request", "commit") /\ stack'[p] # stack[p]) =>
                 LET f == Top(p) IN
                 /\ withdraw_requests' =
                        Append(withdraw_requests,
                               [user_id |-> f.uid, amount |-> f.amt, status |-> "pending"])
                 /\ balance' = [balance EXCEPT ![f.uid] = @ - f.amt]]_vars

\* one caller has inserted its row but not yet debited, inside its
\* transaction, while another caller's request is already stored
C14_MidCreateWitness ==
    \E p, q \in Threads :
        /\ At(p, "create_withdraw_request", "update")
        /\ Len(tx[p].withdraw_requests) = Len(withdraw_requests) + 1
        /\ Ended(q, "create_withdraw_request", "ok")
        /\ Len(withdraw_requests) = 1

\* the update that the event loop is handling
Handled == stack[Loop][Len(stack[Loop])]

\* C15: a withdrawal creation whose amount is greater than the user's balance
\* ends with InsufficientBalance, and no step of it changes any table: no
\* withdrawal row is inserted and no balance changes
C15_InsufficientLeavesStore ==
    [][(/\ Running(Loop, "save_withdraw_request")
        /\ Handled.amt > balance[Handled.uid])
       => /\ UNCHANGED tables
          /\ At(Loop, "create_withdraw_request", "begin")
                 => result'[Loop].res = "InsufficientBalance"]_vars

\* a request for 60 was refused against a balance of 40, left by an earlier
\* request for 60 against 100
C15_RefusedWitness ==
    /\ Ended(Loop, "save_withdraw_request", "InsufficientBalance")
    /\ result[Loop].amt = 60
    /\ balance0[result[Loop].uid] = 100
    /\ balance[result[Loop].uid] = 40
    /\ Len(withdraw_requests) = 1

\* C16: every withdrawal request row has an amount greater than zero, and the
\* creation of a request never raises a balance
C16_PositiveAmounts ==
    /\ [](\A i \in DOMAIN withdraw_requests : withdraw_requests[i].amount > 0)
    /\ [][At(Caller, "create_withdraw_request", "commit") =>
             \A u \in DOMAIN balance : balance'[u] <= balance[u]]_vars

\* the funds of user u: the balance and the amounts held by u's pending and
\* approved withdrawal requests
Funds(bal, reqs, u) == bal[u] + HeldSum(reqs, u, {"pending", "approved"})

\* the step credits the reward of an order of u
RewardStep(u) ==
    /\ At(Loop, "approve_order", "start")
    /\ Top(Loop).id \in DOMAIN orders
    /\ orders[Top(Loop).id].user_id = u

\* C17: the funds of a user change only by a credit: the step that approves
\* an order of the user adds the reward, and every other step, among them the
\* creation, the approval and the rejection of a withdrawal request, leaves
\* the balance plus the held amounts as it was
C17_FundsReconcile ==
    [][\A u \in InitUsers :
          Funds(balance', withdraw_requests', u) =
              Funds(balance, withdraw_requests, u)
                  + (IF RewardStep(u) THEN ORDER_REWARD ELSE 0)]_vars

\* C18: a withdrawal approval is applied whole or not at all: every step of
\* it that changes the store writes the balance and the status together, so
\* no state has one of the two writes without the other
C18_NoPartialMutation ==
    [][(Running(Loop, "accept_withdraw") /\ tables' # tables)
       => (balance' # balance /\ withdraw_requests' # withdraw_requests)]_vars

\* C19: update_user_balance on an existing user with balance b and delta d
\* raises no error and stores exactly max(0, b + d), leaving every other
\* balance as it was
C19_ClampedAdjust ==
    /\ [][(/\ At(Caller, "update_user_balance", "begin")
            /\ Top(Caller).uid \in DOMAIN balance)
           => (stack'[Caller] # <<>> /\ Head(stack'[Caller]).pc = "update")]_vars
    /\ [][At(Caller, "update_user_balance", "commit")
           => LET f == Top(Caller) IN
              /\ balance' = [balance EXCEPT ![f.uid] = Max(0, balance[f.uid] + f.amt)]
              /\ result'[Caller].res = "ok"]_vars

\* the first call, a debit of 10000 on user 2's balance of 100, has returned
\* and left the balance at 0 and the other balance as it was
C19_OverdraftWitness ==
    /\ nops = 1
    /\ Ended(Caller, "update_user_balance", "ok")
    /\ result[Caller].uid = 2
    /\ result[Caller].amt = -10000
    /\ balance0[2] = 100
    /\ balance[2] = 0
    /\ balance[1] = balance0[1]

\* C20: update_user_balance and create_withdraw_request for a user that has
\* no row end with NotFound and change no table, so that no user row is
\* created and no withdrawal row is inserted; every withdrawal request
\* belongs to a user that has a row, so the refund of a rejection always
\* finds its user
C20_NotFoundRollsBack ==
    /\ [][(/\ \/ At(Caller, "update_user_balance", "begin")
               \/ At(Caller, "create_withdraw_request", "begin")
            /\ Top(Caller).uid \notin DOMAIN balance)
           => /\ UNCHANGED tables
              /\ result'[Caller].res = "NotFound"
              /\ stack'[Caller] = <<>>]_vars
    /\ [](\A i \in DOMAIN withdraw_requests :
             withdraw_requests[i].user_id \in DOMAIN balance)

\* after a stored request of user 1, a debit of a user without a row has
\* been refused and the tables are as they were
C20_UnknownUserWitness ==
    /\ Ended(Caller, "update_user_balance", "NotFound")
    /\ result[Caller].uid \notin DOMAIN balance
    /\ Len(withdraw_requests) = 1
    /\ withdraw_requests[1].user_id = 1
    /\ balance[1] = balance0[1] - withdraw_requests[1].amount

\* the referral row of the pair (u, v) is stored
Recorded(refs, u, v) == \E r \in refs : r.referrer_id = u /\ r.referred_id = v

C22_UniqueReferralPair ==
    /\ [](\A r1, r2 \in referrals :
             (r1.referrer_id = r2.referrer_id /\ r1.referred_id = r2.referred_id)
                 => r1 = r2)
    /\ [][(/\ ~Idle(Caller)
            /\ Top(Caller).fn = "add_referral"
            /\ Recorded(referrals, Top(Caller).uid, Top(Caller).id))
           => /\ referrals' = referrals
              /\ result'[Caller].res # "IntegrityError"
              /\ stack'[Caller] = <<>> => result'[Caller].res = "ok"]_vars

\* add_referral has returned for the third time for the pair (1, 2), and the
\* pair has its one row
C22_RepeatedPairWitness ==
    /\ nops = 3
    /\ Idle(Caller)
    /\ Ended(Caller, "add_referral", "ok")
    /\ referrals = {[referrer_id |-> 1, referred_id |-> 2, bonus |-> 0]}

\* C23: once a user's referred_by holds a referrer id, no later upsert_user
\* or get_or_create_user call changes it, whatever referrer the call names,
\* and every such call returns normally
C23_ReferredByFirstWriteWins ==
    /\ [][\A u \in DOMAIN referred_by :
             referred_by[u] # NoReferrer => referred_by'[u] = referred_by[u]]_vars
    /\ [](\A p \in {Loop, Caller} : result[p].res \in {"none", "ok"})

\* user 3 registered with referrer 1, and a later upsert_user naming
\* referrer 2 has returned with the referrer still 1
C23_KeptReferrerWitness ==
    /\ 3 \in DOMAIN referred_by
    /\ referred_by[3] = 1
    /\ Ended(Caller, "upsert_user", "ok")
    /\ result[Caller].uid = 3
    /\ result[Caller].id = 2

RECURSIVE Ancestor(_, _, _)
\* v is reached from u by following n or fewer referred_by links
Ancestor(u, v, n) ==
    /\ n > 0
    /\ u \in DOMAIN referred_by
    /\ \/ referred_by[u] = v
       \/ Ancestor(referred_by[u], v, n - 1)

\* C24: the referred_by links form a forest: no user is reached from itself
\* by following the links, and so no user is its own referrer
C24_ReferralForest ==
    \A u \in DOMAIN referred_by : ~Ancestor(u, u, Cardinality(UserIds))

\* C25: add_user_balance and update_user_balance with the same amount >= 0,
\* run from the same state, leave the same balances and report the same
\* outcome: a call of add_user_balance stores what update_user_balance would
\* store and ends as it would end, with NotFound for a user that has no row
C25_CreditEqualsAdjust ==
    [][At(Caller, "add_user_balance", "begin") =>
          LET f == Top(Caller) IN
          IF f.uid \in DOMAIN balance
          THEN /\ balance' = [balance EXCEPT ![f.uid] = NewBalance(@, f.amt)]
               /\ result'[Caller].res = "ok"
          ELSE /\ balance' = balance
               /\ result'[Caller].res = "NotFound"]_vars

\* C26: a status-changing call that names a withdrawal id without a row
\* changes no table and ends with NotFound
C26_UnknownIdNotFound ==
    [][(/\ ~Idle(Caller)
        /\ Top(Caller).fn \in {"update_withdraw_request_status", "set_withdraw_status",
                               "reject_withdraw_request_and_refund"}
        /\ Top(Caller).id \notin DOMAIN withdraw_requests)
       => /\ UNCHANGED tables
          /\ stack'[Caller] = <<>> => result'[Caller].res = "NotFound"]_vars

\* C27: the creation of an order appends exactly one row, owned by the user
\* and pending, and changes no other row and no balance; the rejection of an
\* order changes no balance and no row of another order
C27_OrderFrame ==
    /\ [][At(Loop, "process_order_photo", "start") =>
             /\ orders' = Append(orders, [user_id |-> Top(Loop).uid, status |-> "pending"])
             /\ UNCHANGED <<balance, withdraw_requests, referrals>>]_vars
    /\ [][At(Loop, "reject_order", "start") =>
             /\ UNCHANGED <<balance, withdraw_requests, referrals>>
             /\ Len(orders') = Len(orders)
             /\ \A i \in DOMAIN orders : i # Top(Loop).id => orders'[i] = orders[i]]_vars

\* two orders were created and the second was rejected: the first is still
\* pending and the balances are the initial ones
C27_RejectedOrderWitness ==
    /\ Ended(Loop, "reject_order", "ok")
    /\ result[Loop].id = 2
    /\ Len(orders) = 2
    /\ orders[1].status = "pending"
    /\ orders[2] = [user_id |-> 2, status |-> "rejected"]
    /\ balance = balance0

\* the event loop is at the chat sends of a handler that changes balances
\* or statuses
Sending ==
    \/ At(Loop, "approve_order", "notify")
    \/ \E h \in {"save_withdraw_request", "accept_withdraw",
                  "reject_withdraw_request", "reject_withdraw"} : At(Loop, h, "done")

C29_BoundedRetry ==
    /\ [](~Idle(Caller) =>
             /\ Top(Caller).attempt \in 0..(MAX_RETRIES - 1)
             /\ Top(Caller).retry_delay = RETRY_DELAY * 2^Top(Caller).attempt)
    /\ [][(~Idle(Caller) /\ stack'[Caller] = <<>>) =>
             LET res == result'[Caller].res IN
             /\ res \in {"ok", "NotFound", "OperationalError", "DatabaseError"}
             /\ res = "OperationalError" => Top(Caller).attempt = MAX_RETRIES - 1
             /\ res # "ok" => UNCHANGED tables]_vars

\* a call that is past "with _connection_lock": it has its connection open
Connected(p) == ~Idle(p) /\ Top(p).pc # "acquire"

\* C30: at most one call at a time has a connection or a transaction open,
\* and that call holds the connection lock; while a call has its
\* transaction open, between its SELECT and its commit, the only step
\* another thread takes is to start a call, which then waits for the lock
C30_MutualExclusion ==
    /\ [](\A p, q \in PairThreads :
             /\ (Connected(p) \/ tx[p].on) => lock = p
             /\ (Connected(p) /\ Connected(q)) => p = q)
    /\ [][\A p, q \in PairThreads :
             (p # q /\ Connected(p) /\ stack'[q] # stack[q]) =>
                 /\ Idle(q)
                 /\ UNCHANGED <<tables, tx, lock>>]_vars

\* one thread has read the balance it will write and not yet written it,
\* while the other thread's update_user_balance of the same user waits for
\* the lock
C30_WaitingWitness ==
    /\ At("t1", "update_user_balance", "update")
    /\ tx["t1"].on
    /\ At("t2", "update_user_balance", "acquire")
    /\ Top("t1").uid = Top("t2").uid

\* C31: whenever a store operation ends, with a result or with any error,
\* the connection lock is free, the operation has no transaction open, and
\* an operation that ended with an error has changed no table
C31_ExitReleases ==
    [][(~Idle(Caller) /\ stack'[Caller] = <<>>) =>
          /\ lock' = NoProc
          /\ tx'[Caller] = NoTx
          /\ result'[Caller].res # "ok" => UNCHANGED tables]_vars

\* the number of approved orders of user u
ApprovedOrders(ords, u) ==
    Cardinality({i \in DOMAIN ords : ords[i].user_id = u /\ ords[i].status = "approved"})

\* C32: for every user the rewards credited equal the reward times the
\* number of the user's approved orders: both start at zero, and in every
\* step the amount approve_order credits to the user is the reward times
\* the change of that number, so a step that takes an order out of approved
\* or approves it again breaks the equality
C32_RewardPerApprovedOrder ==
    [][\A u \in InitUsers :
          (IF At(Loop, "approve_order", "start") THEN balance'[u] - balance[u] ELSE 0)
              = ORDER_REWARD * (ApprovedOrders(orders', u) - ApprovedOrders(orders, u))]_vars

\* C33: an approve action on a pending withdrawal request approves it
\* whatever the owner's balance is: when process_payment or accept_withdraw
\* returns, the request it was given is no longer pending
C33_PendingCanBeApproved ==
    [][(/\ ~Idle(Loop)
        /\ stack'[Loop] = <<>>
        /\ Top(Loop).fn \in {"process_payment", "accept_withdraw"}
        /\ Top(Loop).id \in DOMAIN withdraw_requests)
       => withdraw_requests'[Top(Loop).id].status # "pending"]_vars

\* the call or handler that process p was given
Bottom(p) == stack[p][Len(stack[p])]

\* the user an operation is about: the owner of the withdrawal request or of
\* the order it is given, the user who creates a request, the referrer
Affected(f) ==
    CASE f.fn \in {"process_payment", "accept_withdraw", "reject_withdraw_request",
                    "reject_withdraw"} ->
             IF f.id \in DOMAIN withdraw_requests
             THEN withdraw_requests[f.id].user_id ELSE 0
      [] f.fn = "approve_order" ->
             IF f.id \in DOMAIN orders THEN orders[f.id].user_id ELSE 0
      [] OTHER -> f.uid

\* C34: a step of creating, approving or rejecting a withdrawal request, of
\* approving an order or of recording a referral changes no balance but
\* that of the request's owner, the order's owner or the referrer
C34_BalanceFrame ==
    [][\A p \in {Loop, Caller} :
          (/\ ~Idle(p)
           /\ Bottom(p).fn \in {"save_withdraw_request", "process_payment", "accept_withdraw",
                                 "reject_withdraw_request", "reject_withdraw",
                                 "approve_order", "add_referral"})
          => \A u \in DOMAIN balance :
                 u # Affected(Bottom(p)) => balance'[u] = balance[u]]_vars

\* user 1's order was approved and user 2 created a withdrawal request of
\* 60: each balance moved by its own operation only
C34_TwoOwnersWitness ==
    /\ Idle(Loop) /\ Idle(Caller)
    /\ Len(orders) = 1 /\ orders[1] = [user_id |-> 1, status |-> "approved"]
    /\ Len(withdraw_requests) = 1
    /\ withdraw_requests[1].user_id = 2 /\ withdraw_requests[1].amount = 60
    /\ balance[1] = balance0[1] + ORDER_REWARD
    /\ balance[2] = balance0[2] - 60

ByAdmin == ~Idle(Loop) /\ Bottom(Loop).uid \in ADMIN_IDS

\* C36: every step that approves an order or a withdrawal request, or
\* rejects a withdrawal request, belongs to an update sent by an
\* administrator; a step of any other sender's update changes no status
\* but that of an order of the sender, to rejected, and raises no balance
C36_OnlyAdminApproves ==
    /\ [][(\/ (\E i \in DOMAIN orders :
                  (orders[i].status # "approved" /\ orders'[i].status = "approved"))
            \/ (\E i \in DOMAIN withdraw_requests :
                  withdraw_requests'[i].status # withdraw_requests[i].status))
           => ByAdmin]_vars
    /\ [][~ByAdmin =>
             /\ \A u \in DOMAIN balance : balance'[u] <= balance[u]
             /\ \A i \in DOMAIN orders :
                    orders'[i] # orders[i] =>
                        /\ ~Idle(Loop)
                        /\ orders[i].user_id = Bottom(Loop).uid
                        /\ orders'[i] = [orders[i] EXCEPT !.status = "rejected"]]_vars

\* user 1's order is pending, and user 1's own approve_order callback for
\* it was turned away by the admin filter
C36_TurnedAwayWitness ==
    /\ Idle(Loop)
    /\ result[Loop].op = "approve_order"
    /\ result[Loop].res = "not_admin"
    /\ result[Loop].uid = 1
    /\ result[Loop].id \in DOMAIN orders
    /\ orders[result[Loop].id] = [user_id |-> 1, status |-> "pending"]
    /\ balance = balance0

\* C37: while a user is blocked, no step of an update sent by that user
\* (an order, a cancel, the end of a withdrawal conversation) changes a table
C37_BlockedUserFrozen ==
    [][(/\ ~Idle(Loop)
        /\ Bottom(Loop).fn \in {"process_order_photo", "cancel_order_callback",
                                 "save_withdraw_request"}
        /\ is_user_blocked(is_blocked, Bottom(Loop).uid))
       => UNCHANGED tables]_vars

\* C38: the users table has one row per user id, with all its columns; no
\* row is ever deleted; a row that is created has balance 0 and is not
\* blocked; and no step of get_or_create_user or upsert_user changes the
\* balance or the blocked flag of an existing user
C38_CreationIdempotent ==
    /\ [](DOMAIN referred_by = DOMAIN balance /\ DOMAIN is_blocked = DOMAIN balance)
    /\ [][/\ DOMAIN balance \subseteq DOMAIN balance'
          /\ \A u \in DOMAIN balance' \ DOMAIN balance :
                 balance'[u] = 0 /\ ~is_blocked'[u]]_vars
    /\ [][\A p \in PairThreads :
             (/\ ~Idle(p)
              /\ stack'[p] # stack[p]
              /\ Top(p).fn \in {"get_or_create_user", "upsert_user"})
             => \A u \in DOMAIN balance :
                    balance'[u] = balance[u] /\ is_blocked'[u] = is_blocked[u]]_vars

\* user 3 was created with balance 0, user 1 has a balance of 100 and was
\* blocked, and an upsert_user for user 1 is about to commit
C38_RepeatedCreationWitness ==
    /\ At("t1", "upsert_user", "commit")
    /\ Top("t1").uid = 1
    /\ balance[1] = 100
    /\ is_blocked[1]
    /\ 3 \in DOMAIN balance
    /\ balance[3] = 0

====
